---- MODULE Spec2Model ----
(***************************************************************************)
(* Model of the collection engine of hpe-3par-exporter.py: the collector   *)
(* object HP3PARCollector, its six metric dictionaries, the collection     *)
(* pass (_update_metrics, _get_status_resources, _get_overprovisioning)    *)
(* and the emission loop of collect(), run by the main thread at           *)
(* registration and by the HTTP server's worker threads at every scrape.   *)
(***************************************************************************)
EXTENDS Integers, Sequences, FiniteSets, TLC

\* ------------------------------------------------------------------ bounds

\* Number of scrape requests the HTTP server accepts after registration.
MaxScrapes == 2

\* ------------------------------------------------------------------ values

\* Python's None, and a non-null value x of a property.
None == [none |-> TRUE]
Val(x) == [none |-> FALSE, v |-> x]

\* A number m / 10^d, kept with no trailing zero in the fraction, so that
\* equal numbers are equal values.
RECURSIVE Dec(_, _)
Dec(m, d) == IF d > 0 /\ m % 10 = 0 THEN Dec(m \div 10, d - 1) ELSE <<m, d>>

\* --storage_name, the one label value of every sample.
storage_name == "array1"

\* self.list_CIM_classes, in its declared order.
list_CIM_classes ==
    << "TPD_DynamicStoragePool", "TPD_NodeSystem", "TPD_DriveCage", "TPD_DiskDrive",
       "TPD_CagePowerSupply", "TPD_NodePowerSupply", "TPD_Battery", "TPD_Fan",
       "TPD_IDEDrive", "TPD_PhysicalMemory", "TPD_SASPort", "TPD_FCPort",
       "TPD_EthernetPort", "TPD_PCICard" >>

\* PropertyList of the sweep's EnumerateInstances call.
SweepPropertyList ==
    { "OperationalStatus", "HealthState", "DeviceID", "ElementName", "Tag",
      "SerialNumber", "SystemLED", "OtherOperationalStatus", "RemainingCapacity",
      "Voltage" }

\* ------------------------------------------------------------------ strings

\* s[i:] of Python, i counted from 0.
StrFrom(s, i) == SubSeq(s, i + 1, Len(s))

\* str.replace(old, new) for a one-character old.
RECURSIVE replace(_, _, _)
replace(s, old, new) ==
    IF s = "" THEN ""
    ELSE (IF SubSeq(s, 1, 1) = old THEN new ELSE SubSeq(s, 1, 1))
         \o replace(StrFrom(s, 1), old, new)

\* The chain .replace('.', '_').replace('[', '_').replace(']', '_').replace('-', '_').
replace_chain(s) == replace(replace(replace(replace(s, ".", "_"), "[", "_"), "]", "_"), "-", "_")

\* "{0}".format(x): the text of a string, "None" for None.
format(x) == IF x = None THEN "None" ELSE x.v

\* str.split(sep) for a one-character sep: the pieces between the separators,
\* empty pieces included.
RECURSIVE split(_, _)
split(s, sep) ==
    LET hits == { i \in 1..Len(s) : SubSeq(s, i, i) = sep }
    IN  IF hits = {} THEN << s >>
        ELSE LET i == CHOOSE j \in hits : \A k \in hits : j <= k
             IN  << SubSeq(s, 1, i - 1) >> \o split(StrFrom(s, i), sep)

\* The characters float() strips from both ends of its argument.
IsSpace(c) == c \in { " ", "\t", "\n", "\r" }

RECURSIVE lstrip(_)
lstrip(s) == IF s # "" /\ IsSpace(SubSeq(s, 1, 1)) THEN lstrip(StrFrom(s, 1)) ELSE s

RECURSIVE rstrip(_)
rstrip(s) ==
    IF s # "" /\ IsSpace(SubSeq(s, Len(s), Len(s))) THEN rstrip(SubSeq(s, 1, Len(s) - 1)) ELSE s

strip(s) == rstrip(lstrip(s))

Digits == "0123456789"
IsDigit(c) == \E i \in 1..10 : SubSeq(Digits, i, i) = c
DigitVal(c) == (CHOOSE i \in 1..10 : SubSeq(Digits, i, i) = c) - 1

\* The exceptions of the parse.
ValueError == [raised |-> "ValueError"]
IndexError == [raised |-> "IndexError"]

\* The digits of s read as a natural number.
RECURSIVE Natural(_)
Natural(s) ==
    IF s = "" THEN 0
    ELSE 10 * Natural(SubSeq(s, 1, Len(s) - 1)) + DigitVal(SubSeq(s, Len(s), Len(s)))

\* float(s), for the decimal notation [sign] digits [. digits]: the number, or
\* ValueError for any other text (the outputs of the model use no exponent,
\* "inf", "nan" or "_" notation).
float(s) ==
    LET t == strip(s)
        neg == t # "" /\ SubSeq(t, 1, 1) = "-"
        u == IF t # "" /\ SubSeq(t, 1, 1) \in { "-", "+" } THEN StrFrom(t, 1) ELSE t
        parts == split(u, ".")
        ip == parts[1]
        fp == IF Len(parts) = 2 THEN parts[2] ELSE ""
        all == ip \o fp
        ok == /\ Len(parts) <= 2
              /\ all # ""
              /\ \A i \in 1..Len(all) : IsDigit(SubSeq(all, i, i))
    IN  IF ok THEN Val(Dec((IF neg THEN -1 ELSE 1) * Natural(all), Len(fp)))
        ELSE ValueError

\* ------------------------------------------------------------------ statements

\* One statement of the collection pass that touches self.<d>_metrics:
\*   new   : self.<d>_metrics[key] = GaugeMetricFamily(key, ...)
\*   add   : self.<d>_metrics[key].add_metric([self.storage_name], value)
\*   raise : an exception raised inside the try block
New(d, key) == << [op |-> "new", d |-> d, key |-> key, value |-> None] >>
Add(d, key, value) == << [op |-> "add", d |-> d, key |-> key, value |-> value] >>
Raise == << [op |-> "raise", d |-> "", key |-> "", value |-> None] >>

\* The statements executed up to and including the first raise.
RECURSIVE UpToRaise(_)
UpToRaise(ops) ==
    IF ops = << >> THEN << >>
    ELSE IF Head(ops).op = "raise" THEN << Head(ops) >>
    ELSE << Head(ops) >> \o UpToRaise(Tail(ops))

\* instance[f]: KeyError when the instance has no property f.
Lookup(instance, f) == IF f \in DOMAIN instance THEN << >> ELSE Raise

\* "<kind>_{0}_{1}".format(CIM_class[4:], instance[f]) with the replace chain.
key_status(kind, CIM_class, instance, f) ==
    IF f \in DOMAIN instance
    THEN replace_chain(kind \o "_" \o StrFrom(CIM_class, 4) \o "_" \o format(instance[f]))
    ELSE ""

\* "battery_<kind>_{0}".format(instance["DeviceID"]) with the replace chain.
key_battery(kind, instance) ==
    IF "DeviceID" \in DOMAIN instance
    THEN replace_chain("battery_" \o kind \o "_" \o format(instance["DeviceID"]))
    ELSE ""

\* self.<d>_metrics[key] = GaugeMetricFamily(...) followed by
\* .add_metric([self.storage_name], instance[f]).
Gauge(d, key, instance, f) ==
    New(d, key) \o (IF f \in DOMAIN instance THEN Add(d, key, instance[f]) ELSE Raise)

\* The same with instance["OperationalStatus"][0]: KeyError when absent,
\* TypeError when None, IndexError when empty.
GaugeOper(key, instance) ==
    New("oper", key)
    \o (IF /\ "OperationalStatus" \in DOMAIN instance
           /\ instance["OperationalStatus"] # None
           /\ instance["OperationalStatus"].v # << >>
        THEN Add("oper", key, Head(instance["OperationalStatus"].v))
        ELSE Raise)

\* if instance[f] is not None: new + add, for the battery's two properties.
GaugeIfNotNone(key, instance, f) ==
    IF f \notin DOMAIN instance THEN Raise
    ELSE IF instance[f] # None THEN New("battery", key) \o Add("battery", key, instance[f])
    ELSE << >>

\* The body of "for instance in state_of_concrete_instances" for one instance:
\* the statements it executes, in order.
instance_statements(CIM_class, instance) ==
    UpToRaise(
      (IF CIM_class \in { "TPD_Fan", "TPD_Battery", "TPD_CagePowerSupply", "TPD_NodePowerSupply" }
       THEN Lookup(instance, "DeviceID")
            \o Gauge("health", key_status("health", CIM_class, instance, "DeviceID"),
                     instance, "HealthState")
            \o GaugeOper(key_status("oper", CIM_class, instance, "DeviceID"), instance)
            \o (IF CIM_class = "TPD_Battery"
                THEN GaugeIfNotNone(key_battery("capacity", instance), instance, "RemainingCapacity")
                     \o GaugeIfNotNone(key_battery("voltage", instance), instance, "Voltage")
                ELSE << >>)
       ELSE << >>)
      \o
      (IF CIM_class \in { "TPD_NodeSystem", "TPD_DriveCage", "TPD_DiskDrive",
                          "TPD_DynamicStoragePool", "TPD_SASPort", "TPD_FCPort",
                          "TPD_EthernetPort" }
       THEN Lookup(instance, "ElementName")
            \o Gauge("health", key_status("health", CIM_class, instance, "ElementName"),
                     instance, "HealthState")
            \o GaugeOper(key_status("oper", CIM_class, instance, "ElementName"), instance)
            \o (IF CIM_class = "TPD_NodeSystem"
                THEN Gauge("led", key_status("led", CIM_class, instance, "ElementName"),
                           instance, "SystemLED")
                ELSE IF CIM_class \in { "TPD_SASPort", "TPD_FCPort", "TPD_EthernetPort" }
                THEN Gauge("other_oper",
                           key_status("other_oper", CIM_class, instance, "ElementName"),
                           instance, "OtherOperationalStatus")
                ELSE << >>)
       ELSE << >>)
      \o
      (IF CIM_class \in { "TPD_IDEDrive", "TPD_PCICard" }
       THEN Lookup(instance, "Tag")
            \o GaugeOper(key_status("oper", CIM_class, instance, "Tag"), instance)
       ELSE << >>)
      \o
      (IF CIM_class = "TPD_PhysicalMemory"
       THEN Lookup(instance, "SerialNumber")
            \o GaugeOper(key_status("oper", CIM_class, instance, "SerialNumber"), instance)
       ELSE << >>))

\* The statements of the whole inner loop over the instances of one class.
RECURSIVE class_statements(_, _)
class_statements(CIM_class, instances) ==
    IF instances = << >> THEN << >>
    ELSE UpToRaise(instance_statements(CIM_class, Head(instances))
                   \o class_statements(CIM_class, Tail(instances)))

\* "overprv_DynamicStoragePool_{0}".format(cpg["ElementName"]) with the replace chain.
key_overprv(cpg) ==
    replace_chain("overprv_DynamicStoragePool_" \o format(cpg["ElementName"]))

\* The parse of one command output: the text after decode, split on "\n",
\* element [3] (IndexError when there are fewer than 4 pieces), split on ' ',
\* float() of the last piece (ValueError when it is no number).
value_overprv(output) ==
    LET lines == split(output, "\n")
    IN  IF Len(lines) < 4 THEN IndexError
        ELSE LET tokens == split(lines[4], " ")
             IN  float(tokens[Len(tokens)])

\* The body of "for cpg in CPGs" after exec_command returned output.
cpg_statements(cpg, output) ==
    IF value_overprv(output) \in { IndexError, ValueError } THEN Raise
    ELSE New("overprv", key_overprv(cpg)) \o Add("overprv", key_overprv(cpg), value_overprv(output))

\* ------------------------------------------------------------------ upstream

D(n) == Val(Dec(n, 0))

\* Records of the array: one fan reported twice with different states, a fan
\* record with no OperationalStatus, and two storage pools.
FanA == [ DeviceID |-> Val("1.2"), HealthState |-> D(5),
          OperationalStatus |-> Val(<< D(2) >>) ]
FanB == [ DeviceID |-> Val("1.2"), HealthState |-> D(20),
          OperationalStatus |-> Val(<< D(6) >>) ]
FanNoStatus == [ DeviceID |-> Val("1.2"), HealthState |-> D(2) ]
Pool1 == [ ElementName |-> Val("cpg-1"), HealthState |-> D(5),
           OperationalStatus |-> Val(<< D(2) >>) ]
Pool2 == [ ElementName |-> Val("cpg.2"), HealthState |-> D(5),
           OperationalStatus |-> Val(<< D(2) >>) ]

\* A pool whose name holds a space, a fan whose DeviceID is null and that is
\* named by its ElementName, and a fan with none of the identifying properties.
PoolSpaced == [ ElementName |-> Val("cpg 3"), HealthState |-> D(5),
                OperationalStatus |-> Val(<< D(2) >>) ]
FanNullDeviceID == [ DeviceID |-> None, ElementName |-> Val("fan7"), HealthState |-> D(5),
                     OperationalStatus |-> Val(<< D(2) >>) ]
FanAnonymous == [ HealthState |-> D(5), OperationalStatus |-> Val(<< D(2) >>) ]

\* Outputs of "showspace -cpg <pool>": the value on line index 3, too few
\* lines, a last token that is no number, and a rejection notice followed by a
\* table whose line index 3 ends in a number.
OutValue == "h\nh\nh\nc 42.5\n"
OutShort == "h\n"
OutDashes == "h\nh\nh\nc --\n"
OutInvalid == "Invalid\nh\nh\nc 42.5\n"

\* Line index 3 with repeated spaces, with a space after the value, and with a
\* tab as separator.
OutSpaces == "h\nh\nh\nc  7\n"
OutTrailing == "h\nh\nh\nc 42.5 \n"
OutTabs == "h\nh\nh\nc\t42.5\n"

\* The states in which a pass can meet the array: the instances of each class it
\* reports and what showspace prints for each pool.
Arrays ==
    { [ fans |-> << FanA, FanB >>, pools |-> << Pool1, Pool2 >>,
        showspace |-> << OutValue, OutValue >> ],
      [ fans |-> << >>, pools |-> << Pool1, Pool2 >>,
        showspace |-> << OutShort, OutValue >> ],
      [ fans |-> << >>, pools |-> << Pool1, Pool2 >>,
        showspace |-> << OutDashes, OutValue >> ],
      [ fans |-> << >>, pools |-> << Pool1 >>,
        showspace |-> << OutInvalid >> ],
      [ fans |-> << FanNoStatus >>, pools |-> << >>, showspace |-> << >> ],
      [ fans |-> << FanNullDeviceID >>, pools |-> << PoolSpaced >>,
        showspace |-> << OutValue >> ],
      [ fans |-> << FanAnonymous >>, pools |-> << >>, showspace |-> << >> ],
      [ fans |-> << >>, pools |-> << Pool1, Pool2 >>,
        showspace |-> << OutSpaces, OutTrailing >> ],
      [ fans |-> << >>, pools |-> << Pool1 >>,
        showspace |-> << OutTabs >> ] }

\* The states in which overlapping passes meet the array: one fan, or one pool.
SmallArrays ==
    { [ fans |-> << FanA >>, pools |-> << >>, showspace |-> << >> ],
      [ fans |-> << >>, pools |-> << Pool1 >>, showspace |-> << OutValue >> ] }

\* Before a thread has met the array.
NoArray == [ fans |-> << >>, pools |-> << >>, showspace |-> << >> ]

\* What EnumerateInstances(CIM_class) returns from array a.
Inventory(a, CIM_class) ==
    IF CIM_class = "TPD_Fan" THEN a.fans
    ELSE IF CIM_class = "TPD_DynamicStoragePool" THEN a.pools
    ELSE << >>

\* What array a prints for "showspace -cpg <name>".
Showspace(a, name) ==
    IF \E i \in 1..Len(a.pools) : format(a.pools[i]["ElementName"]) = name
    THEN a.showspace[CHOOSE i \in 1..Len(a.pools) : format(a.pools[i]["ElementName"]) = name]
    ELSE "Invalid\n"

\* The instance as the call returns it: only the properties of PropertyList.
Restrict(instance, PropertyList) ==
    [ f \in (DOMAIN instance) \cap PropertyList |-> instance[f] ]

RECURSIVE RestrictAll(_, _)
RestrictAll(instances, PropertyList) ==
    IF instances = << >> THEN << >>
    ELSE << Restrict(Head(instances), PropertyList) >>
         \o RestrictAll(Tail(instances), PropertyList)

\* ------------------------------------------------------------------ state

Workers == { "w1", "w2" }
Threads == { "main" } \cup Workers

\* The six dictionaries of the collector, in the order collect() yields them.
DictNames == << "health", "oper", "other_oper", "led", "battery", "overprv" >>

VARIABLES
    running,            \* the process is alive
    pc,                 \* per thread: where it is
    health_metrics,     \* self.health_metrics: sequence of [name, samples], insertion order
    oper_metrics,       \* self.oper_metrics
    other_oper_metrics, \* self.other_oper_metrics
    led_metrics,        \* self.led_metrics
    battery_metrics,    \* self.battery_metrics
    overprv_metrics,    \* self.overprv_metrics
    array,              \* per thread: the state of the array its pass meets
    CIM_index,          \* per thread: index of CIM_class in list_CIM_classes
    todo,               \* per thread: statements of the current loop body still to run
    hp_ssh_connection,  \* per thread: the SSH handle of the pass, 0 when none
    CPGs,               \* per thread: pools still to process
    dict_index,         \* per thread: which dictionary collect() is iterating
    iter_len,           \* per thread: size of that dictionary when its iteration began
    emitted,            \* per thread: samples yielded by the current collect()
    result,             \* per thread: how the current collect() ended: "none" while
                        \* it runs, "ok", "RuntimeError", or "exit:<what failed>"
    scrapes,            \* scrape requests accepted so far
    ssh_open,           \* SSH connections opened and not closed
    wbem_connects,      \* WBEM connections created so far
    ssh_connects,       \* SSH connections opened so far
    faults,             \* some upstream call has failed so far
    written,            \* per thread: the samples added by this pass, in order
    listed,             \* per thread: the pools the overprovisioning enumeration returned
    cmdlog,             \* per thread: (pool, output) of every command that returned
    attempts,           \* per thread: SSH connections this pass has opened
    previous            \* the pass that returned last: its array, result and samples

dicts == << health_metrics, oper_metrics, other_oper_metrics, led_metrics,
            battery_metrics, overprv_metrics >>
locals == << array, CIM_index, todo, hp_ssh_connection, CPGs, dict_index, iter_len >>
control == << running, pc, result >>
conns == << ssh_open, wbem_connects, ssh_connects >>
history == << written, listed, cmdlog, attempts, previous >>
vars == << dicts, locals, control, conns, history, emitted, scrapes, faults >>

\* self.<d>_metrics by name.
DictOf(d) ==
    CASE d = "health" -> health_metrics
      [] d = "oper" -> oper_metrics
      [] d = "other_oper" -> other_oper_metrics
      [] d = "led" -> led_metrics
      [] d = "battery" -> battery_metrics
      [] d = "overprv" -> overprv_metrics

HasKey(dict, key) == \E i \in 1..Len(dict) : dict[i].name = key

\* dict[key] = GaugeMetricFamily(key, ...): a family with no sample, in place
\* of the old one under an existing key, at the end under a new key.
SetItem(dict, key) ==
    IF HasKey(dict, key)
    THEN [ i \in 1..Len(dict) |->
             IF dict[i].name = key THEN [ name |-> key, samples |-> << >> ] ELSE dict[i] ]
    ELSE Append(dict, [ name |-> key, samples |-> << >> ])

\* An add_metric whose sample also carries the number of scrape requests
\* accepted when it was added.
AddMetricStamped(dict, key, value) ==
    [ i \in 1..Len(dict) |->
        IF dict[i].name = key
        THEN [ dict[i] EXCEPT !.samples =
                 Append(@, [ name |-> key, labels |-> << storage_name, scrapes >>,
                             value |-> value ]) ]
        ELSE dict[i] ]

\* dict[key].add_metric([self.storage_name], value): one more sample in the
\* family now stored under key.
AddMetric(dict, key, value) ==
    [ i \in 1..Len(dict) |->
        IF dict[i].name = key
        THEN [ dict[i] EXCEPT !.samples =
                 Append(@, [ name |-> key, labels |-> << storage_name >>, value |-> value ]) ]
        ELSE dict[i] ]

\* The dictionary d after statement op.
Apply(d, dict, op) ==
    IF op.d # d THEN dict
    ELSE IF op.op = "new" THEN SetItem(dict, op.key)
    ELSE AddMetric(dict, op.key, op.value)

\* The samples of all families of a dictionary, in iteration order.
RECURSIVE Samples(_)
Samples(dict) == IF dict = << >> THEN << >> ELSE Head(dict).samples \o Samples(Tail(dict))

\* ------------------------------------------------------------------ control

\* Before any pass has returned.
NoPass == [ array |-> NoArray, result |-> "none", samples |-> { } ]

\* What the pass of thread t leaves behind when its collect() has returned:
\* the array it met, how it ended and the set of samples it yielded.
Returned(t) ==
    [ array |-> array[t], result |-> result[t],
      samples |-> { emitted[t][j] : j \in 1..Len(emitted[t]) } ]

\* A handler that logs the error and lets collect() go on to its yield loops.
ExitSwallowed(t) == "iterate"

\* Where SystemExit leaves the thread that raised it: on the main thread it
\* ends the process, on a worker thread of the HTTP server it unwinds the
\* request only.
ExitTarget(t) == IF t = "main" THEN "terminated" ELSE "done"

\* sys.exit(...) on thread t; cause names the call or statement that failed.
SystemExit(t, cause) ==
    /\ running' = (ExitTarget(t) # "terminated")
    /\ pc' = [ pc EXCEPT ![t] = ExitTarget(t) ]
    /\ result' = [ result EXCEPT ![t] = cause ]

Goto(t, label) ==
    /\ pc' = [ pc EXCEPT ![t] = label ]
    /\ UNCHANGED << running, result >>

Init ==
    /\ running = TRUE
    /\ pc = [ t \in Threads |-> IF t = "main" THEN "start" ELSE "idle" ]
    /\ health_metrics = << >>
    /\ oper_metrics = << >>
    /\ other_oper_metrics = << >>
    /\ led_metrics = << >>
    /\ battery_metrics = << >>
    /\ overprv_metrics = << >>
    /\ array = [ t \in Threads |-> NoArray ]
    /\ CIM_index = [ t \in Threads |-> 1 ]
    /\ todo = [ t \in Threads |-> << >> ]
    /\ hp_ssh_connection = [ t \in Threads |-> 0 ]
    /\ CPGs = [ t \in Threads |-> << >> ]
    /\ dict_index = [ t \in Threads |-> 1 ]
    /\ iter_len = [ t \in Threads |-> 0 ]
    /\ emitted = [ t \in Threads |-> << >> ]
    /\ result = [ t \in Threads |-> "none" ]
    /\ scrapes = 0
    /\ ssh_open = 0
    /\ wbem_connects = 0
    /\ ssh_connects = 0
    /\ faults = FALSE
    /\ written = [ t \in Threads |-> << >> ]
    /\ listed = [ t \in Threads |-> << >> ]
    /\ cmdlog = [ t \in Threads |-> << >> ]
    /\ attempts = [ t \in Threads |-> 0 ]
    /\ previous = NoPass

\* The locals of thread t as a thread has them before it calls collect(), and
\* the records of its pass empty.
Fresh(t, a, label) ==
    /\ array' = [ array EXCEPT ![t] = a ]
    /\ CIM_index' = [ CIM_index EXCEPT ![t] = 1 ]
    /\ todo' = [ todo EXCEPT ![t] = << >> ]
    /\ hp_ssh_connection' = [ hp_ssh_connection EXCEPT ![t] = 0 ]
    /\ CPGs' = [ CPGs EXCEPT ![t] = << >> ]
    /\ dict_index' = [ dict_index EXCEPT ![t] = 1 ]
    /\ iter_len' = [ iter_len EXCEPT ![t] = 0 ]
    /\ emitted' = [ emitted EXCEPT ![t] = << >> ]
    /\ result' = [ result EXCEPT ![t] = "none" ]
    /\ written' = [ written EXCEPT ![t] = << >> ]
    /\ listed' = [ listed EXCEPT ![t] = << >> ]
    /\ cmdlog' = [ cmdlog EXCEPT ![t] = << >> ]
    /\ attempts' = [ attempts EXCEPT ![t] = 0 ]
    /\ pc' = [ pc EXCEPT ![t] = label ]

\* A pass is in progress on thread t.
InPass(t) == pc[t] \notin { "start", "serving", "idle", "terminated" }

\* main(): REGISTRY.register(HP3PARCollector(...)), with the array in one of
\* the states S. The default registry describes a collector that has no
\* describe() by running its collect(), on the main thread.
RegisterWith(S) ==
    /\ running
    /\ pc["main"] = "start"
    /\ \E a \in S : Fresh("main", a, "hp_wbem_connect")
    /\ UNCHANGED << dicts, running, conns, scrapes, faults, previous >>

Register == RegisterWith(Arrays)

\* main(): start_http_server(arguments.port), once register has returned;
\* the main thread then sleeps in its loop.
start_http_server ==
    /\ running
    /\ pc["main"] = "done"
    /\ previous' = Returned("main")
    /\ Fresh("main", NoArray, "serving")
    /\ UNCHANGED << dicts, running, conns, scrapes, faults >>

\* The HTTP server hands a scrape request to a new worker thread, which calls
\* collect(), with the array in one of the states S.
ScrapeWith(t, S) ==
    /\ running
    /\ t \in Workers
    /\ pc["main"] = "serving"
    /\ pc[t] = "idle"
    /\ scrapes < MaxScrapes
    /\ scrapes' = scrapes + 1
    /\ \E a \in S : Fresh(t, a, "hp_wbem_connect")
    /\ UNCHANGED << dicts, running, conns, faults, previous >>

\* A scrape request that arrives while no other pass is in progress.
Scrape(t) ==
    /\ \A u \in Threads : ~InPass(u)
    /\ ScrapeWith(t, Arrays)

\* A scrape request that arrives at any time: the server starts a thread per
\* request and the collector takes no lock.
OverlappingScrape(t) == ScrapeWith(t, SmallArrays)

RegisterSmall == RegisterWith(SmallArrays)

\* The worker thread has answered (or dropped) its request and ends.
ThreadEnd(t) ==
    /\ running
    /\ t \in Workers
    /\ pc[t] = "done"
    /\ previous' = Returned(t)
    /\ Fresh(t, NoArray, "idle")
    /\ UNCHANGED << dicts, running, conns, scrapes, faults >>

\* ------------------------------------------------------------------ the pass

\* hp_wbem_connect(): the connection object, or sys.exit("1000") on any error.
hp_wbem_connect(t) ==
    /\ running
    /\ pc[t] = "hp_wbem_connect"
    /\ \/ /\ wbem_connects' = wbem_connects + 1
          /\ Goto(t, "EnumerateInstances")
          /\ UNCHANGED faults
       \/ /\ faults' = TRUE
          /\ SystemExit(t, "exit:wbem_connect")
          /\ UNCHANGED wbem_connects
    /\ UNCHANGED << dicts, locals, ssh_open, ssh_connects, history, emitted, scrapes >>

\* Where the sweep goes once the statements of class number i are done: the
\* next class, or _get_overprovisioning after the last one.
AfterClass(t, i) ==
    /\ CIM_index' = [ CIM_index EXCEPT ![t] = IF i < Len(list_CIM_classes) THEN i + 1 ELSE i ]
    /\ Goto(t, IF i < Len(list_CIM_classes) THEN "EnumerateInstances" ELSE "hp_ssh_connect")

\* The instances EnumerateInstances returns to thread t for class number i.
state_of_concrete_instances(t, i) ==
    RestrictAll(Inventory(array[t], list_CIM_classes[i]), SweepPropertyList)

\* _get_status_resources: hp_connect.EnumerateInstances(CIM_class, PropertyList)
\* for the classes from the current one up to class number i, the first one
\* at which the call fails or returns instances, or the last class: the loop
\* body does nothing for a class with no instance. A failure of the call is
\* caught by the except of the function, which ends in sys.exit("1100").
EnumerateInstances(t) ==
    /\ running
    /\ pc[t] = "EnumerateInstances"
    /\ \E i \in CIM_index[t]..Len(list_CIM_classes) :
         /\ \A j \in CIM_index[t]..(i - 1) : state_of_concrete_instances(t, j) = << >>
         /\ \/ /\ faults' = TRUE
               /\ SystemExit(t, "exit:enumerate")
               /\ CIM_index' = [ CIM_index EXCEPT ![t] = i ]
               /\ UNCHANGED todo
            \/ /\ state_of_concrete_instances(t, i) # << >>
               /\ todo' = [ todo EXCEPT ![t] =
                              class_statements(list_CIM_classes[i],
                                               state_of_concrete_instances(t, i)) ]
               /\ CIM_index' = [ CIM_index EXCEPT ![t] = i ]
               /\ Goto(t, "status")
               /\ UNCHANGED faults
            \/ /\ state_of_concrete_instances(t, i) = << >>
               /\ i = Len(list_CIM_classes)
               /\ AfterClass(t, i)
               /\ UNCHANGED << todo, faults >>
    /\ UNCHANGED << dicts, array, hp_ssh_connection, CPGs, dict_index, iter_len,
                    conns, history, emitted, scrapes >>

\* The effect of one new/add statement of thread t on the dictionaries and on
\* the record of what the pass has added.
RunStatement(t, op) ==
    /\ health_metrics' = Apply("health", health_metrics, op)
    /\ oper_metrics' = Apply("oper", oper_metrics, op)
    /\ other_oper_metrics' = Apply("other_oper", other_oper_metrics, op)
    /\ led_metrics' = Apply("led", led_metrics, op)
    /\ battery_metrics' = Apply("battery", battery_metrics, op)
    /\ overprv_metrics' = Apply("overprv", overprv_metrics, op)
    /\ written' = [ written EXCEPT ![t] =
                      IF op.op = "add"
                      THEN Append(@, [ name |-> op.key, labels |-> << storage_name >>,
                                       value |-> op.value ])
                      ELSE @ ]
    /\ todo' = [ todo EXCEPT ![t] = Tail(@) ]

\* _get_status_resources: the next statement of the loop body over the
\* instances of the current class; an exception ends in sys.exit("1100").
status_statement(t) ==
    /\ running
    /\ pc[t] = "status"
    /\ \/ /\ Head(todo[t]).op = "raise"
          /\ SystemExit(t, "exit:status")
          /\ UNCHANGED << dicts, written, todo, CIM_index >>
       \/ /\ Head(todo[t]).op # "raise"
          /\ RunStatement(t, Head(todo[t]))
          /\ IF Tail(todo[t]) = << >> THEN AfterClass(t, CIM_index[t])
             ELSE Goto(t, "status") /\ UNCHANGED CIM_index
    /\ UNCHANGED << array, hp_ssh_connection, CPGs, dict_index, iter_len, conns,
                    listed, cmdlog, attempts, previous, emitted, scrapes, faults >>

\* hp_ssh_connect(): a connected client, or sys.exit("1000") on any error.
hp_ssh_connect(t) ==
    /\ running
    /\ pc[t] = "hp_ssh_connect"
    /\ \/ /\ ssh_connects' = ssh_connects + 1
          /\ ssh_open' = ssh_open + 1
          /\ hp_ssh_connection' = [ hp_ssh_connection EXCEPT ![t] = ssh_connects + 1 ]
          /\ attempts' = [ attempts EXCEPT ![t] = @ + 1 ]
          /\ Goto(t, "EnumerateCPGs")
          /\ UNCHANGED faults
       \/ /\ faults' = TRUE
          /\ SystemExit(t, "exit:ssh_connect")
          /\ UNCHANGED << ssh_connects, ssh_open, hp_ssh_connection, attempts >>
    /\ UNCHANGED << dicts, array, CIM_index, todo, CPGs, dict_index, iter_len,
                    wbem_connects, written, listed, cmdlog, previous, emitted, scrapes >>

\* _get_overprovisioning: CPGs = hp_connect.EnumerateInstances(
\* 'TPD_DynamicStoragePool', PropertyList=["ElementName"]); a failure is caught
\* by the except of the function, which ends in sys.exit("1000").
EnumerateCPGs(t) ==
    /\ running
    /\ pc[t] = "EnumerateCPGs"
    /\ \/ /\ faults' = TRUE
          /\ SystemExit(t, "exit:enumerate_cpgs")
          /\ UNCHANGED << CPGs, listed >>
       \/ LET instances == RestrictAll(Inventory(array[t], "TPD_DynamicStoragePool"),
                                       { "ElementName" })
          IN  /\ CPGs' = [ CPGs EXCEPT ![t] = instances ]
              /\ listed' = [ listed EXCEPT ![t] = instances ]
              /\ UNCHANGED faults
              /\ Goto(t, IF instances = << >> THEN "hp_ssh_logout" ELSE "exec_command")
    /\ UNCHANGED << dicts, array, CIM_index, todo, hp_ssh_connection, dict_index, iter_len,
                    conns, written, cmdlog, attempts, previous, emitted, scrapes >>

\* _get_overprovisioning: exec_command('showspace -cpg <pool>') and
\* stdout.read() for the next pool (every pool record carries the ElementName
\* the enumeration asked for). A transport failure raises inside the try
\* block, whose except ends in sys.exit("1000").
exec_command(t) ==
    /\ running
    /\ pc[t] = "exec_command"
    /\ \/ /\ faults' = TRUE
          /\ SystemExit(t, "exit:exec_command")
          /\ UNCHANGED << CPGs, todo, cmdlog >>
       \/ /\ LET output == Showspace(array[t], format(Head(CPGs[t])["ElementName"]))
             IN  /\ todo' = [ todo EXCEPT ![t] = cpg_statements(Head(CPGs[t]), output) ]
                 /\ cmdlog' = [ cmdlog EXCEPT ![t] =
                                  Append(@, [ cpg |-> Head(CPGs[t]), output |-> output ]) ]
          /\ CPGs' = [ CPGs EXCEPT ![t] = Tail(@) ]
          /\ Goto(t, "overprv")
          /\ UNCHANGED faults
    /\ UNCHANGED << dicts, array, CIM_index, hp_ssh_connection, dict_index, iter_len,
                    conns, written, listed, attempts, previous, emitted, scrapes >>

\* _get_overprovisioning: the next statement of the loop body after the
\* command returned: the parse, then the new family and its sample. An
\* exception of the parse ends in sys.exit("1000").
overprv_statement(t) ==
    /\ running
    /\ pc[t] = "overprv"
    /\ \/ /\ Head(todo[t]).op = "raise"
          /\ SystemExit(t, "exit:parse")
          /\ UNCHANGED << dicts, written, todo >>
       \/ /\ Head(todo[t]).op # "raise"
          /\ RunStatement(t, Head(todo[t]))
          /\ Goto(t, IF Tail(todo[t]) # << >> THEN "overprv"
                     ELSE IF CPGs[t] # << >> THEN "exec_command"
                     ELSE "hp_ssh_logout")
    /\ UNCHANGED << array, CIM_index, hp_ssh_connection, CPGs, dict_index, iter_len, conns,
                    listed, cmdlog, attempts, previous, emitted, scrapes, faults >>

\* hp_ssh_logout(hp_ssh_connection): close(), taken to close the connection;
\* the except of the function only logs, so the pass goes on either way.
hp_ssh_logout(t) ==
    /\ running
    /\ pc[t] = "hp_ssh_logout"
    /\ ssh_open' = ssh_open - 1
    /\ hp_ssh_connection' = [ hp_ssh_connection EXCEPT ![t] = 0 ]
    /\ Goto(t, "iterate")
    /\ UNCHANGED << dicts, array, CIM_index, todo, CPGs, dict_index, iter_len,
                    wbem_connects, ssh_connects, history, emitted, scrapes, faults >>

\* ------------------------------------------------------------------ emission

\* collect(): "for name, metric in self.<d>_metrics.items()" begins: the
\* iterator notes the size of the dictionary.
iterate(t) ==
    /\ running
    /\ pc[t] = "iterate"
    /\ iter_len' = [ iter_len EXCEPT ![t] = Len(DictOf(DictNames[dict_index[t]])) ]
    /\ Goto(t, "yield")
    /\ UNCHANGED << dicts, array, CIM_index, todo, hp_ssh_connection, CPGs, dict_index,
                    conns, history, emitted, scrapes, faults >>

\* collect(): the loop over one dictionary yields its families; the iterator
\* raises RuntimeError when the dictionary has changed size since the loop
\* began. After the sixth loop collect() returns.
yield(t) ==
    /\ running
    /\ pc[t] = "yield"
    /\ \/ /\ Len(DictOf(DictNames[dict_index[t]])) # iter_len[t]
          /\ pc' = [ pc EXCEPT ![t] = "done" ]
          /\ result' = [ result EXCEPT ![t] = "RuntimeError" ]
          /\ UNCHANGED << emitted, dict_index >>
       \/ /\ Len(DictOf(DictNames[dict_index[t]])) = iter_len[t]
          /\ emitted' = [ emitted EXCEPT ![t] = @ \o Samples(DictOf(DictNames[dict_index[t]])) ]
          /\ IF dict_index[t] < Len(DictNames)
             THEN /\ dict_index' = [ dict_index EXCEPT ![t] = @ + 1 ]
                  /\ pc' = [ pc EXCEPT ![t] = "iterate" ]
                  /\ UNCHANGED result
             ELSE /\ pc' = [ pc EXCEPT ![t] = "done" ]
                  /\ result' = [ result EXCEPT ![t] = "ok" ]
                  /\ UNCHANGED dict_index
    /\ UNCHANGED << dicts, running, array, CIM_index, todo, hp_ssh_connection, CPGs,
                    iter_len, conns, history, scrapes, faults >>

\* The exporter with scrape requests that do not overlap.
Next ==
    \/ Register
    \/ start_http_server
    \/ \E t \in Threads :
         \/ Scrape(t)
         \/ ThreadEnd(t)
         \/ hp_wbem_connect(t)
         \/ EnumerateInstances(t)
         \/ status_statement(t)
         \/ hp_ssh_connect(t)
         \/ EnumerateCPGs(t)
         \/ exec_command(t)
         \/ overprv_statement(t)
         \/ hp_ssh_logout(t)
         \/ iterate(t)
         \/ yield(t)

Spec == Init /\ [][Next]_vars

\* The exporter with scrape requests that may overlap.
NextThreads ==
    \/ RegisterSmall
    \/ start_http_server
    \/ \E t \in Threads :
         \/ OverlappingScrape(t)
         \/ ThreadEnd(t)
         \/ hp_wbem_connect(t)
         \/ EnumerateInstances(t)
         \/ status_statement(t)
         \/ hp_ssh_connect(t)
         \/ EnumerateCPGs(t)
         \/ exec_command(t)
         \/ overprv_statement(t)
         \/ hp_ssh_logout(t)
         \/ iterate(t)
         \/ yield(t)

SpecThreads == Init /\ [][NextThreads]_vars

\* ------------------------------------------------------------------ claims

\* How a pass ends when an upstream call fails.
FaultExits ==
    { "exit:wbem_connect", "exit:enumerate", "exit:ssh_connect",
      "exit:enumerate_cpgs", "exit:exec_command", "exit:parse" }

\* Thread t is between the call of collect() and its return.
Collecting(t) == InPass(t) /\ pc[t] # "done"

\* The pass of thread t is past the per-pool loop of _get_overprovisioning.
PastPools(t) == pc[t] \in { "hp_ssh_logout", "iterate", "yield", "done" }

\* Sample x is among the samples of sequence seq.
Among(x, seq) == \E i \in 1..Len(seq) : seq[i] = x

\* Some sample of sequence seq has metric name n.
Named(n, seq) == \E i \in 1..Len(seq) : seq[i].name = n

\* The kind of a metric name is overprovisioning.
IsOverprv(n) == Len(n) >= 8 /\ SubSeq(n, 1, 8) = "overprv_"

\* C1: whatever upstream fault a pass meets (query connect, enumeration,
\* command connect, command run or parse), the process is still running
\* afterwards.
C1_ProcessSurvivesFaults ==
    \A t \in Threads : result[t] \in FaultExits \/ pc[t] = "terminated" => running

\* C2: when the overprovisioning sub-collection fails terminally (command
\* connect failure or command execution failure), the scrape still emits a
\* sample for every resource metric its own sweep collected.
C2_ResourceSamplesEmitted ==
    \A t \in Threads :
        result[t] \in { "exit:ssh_connect", "exit:exec_command" }
        => \A i \in 1..Len(written[t]) :
               ~IsOverprv(written[t][i].name) => Named(written[t][i].name, emitted[t])

\* C3: when the query channel cannot be established, or the query of a
\* resource class fails during the sweep, the scrape emits no sample at all:
\* neither what the classes before the failure produced nor what an earlier
\* scrape left in the dictionaries.
C3_NoSamplesOnQueryFailure ==
    \A t \in Threads :
        result[t] \in { "exit:wbem_connect", "exit:enumerate" } => emitted[t] = << >>

\* C3 witness: a worker's sweep failed at a class query after an earlier class
\* had produced samples, while the dictionaries also hold overprovisioning
\* samples of an earlier pass.
C3_Witness ==
    \E t \in Workers :
        /\ result[t] = "exit:enumerate"
        /\ written[t] # << >>
        /\ Samples(overprv_metrics) # << >>
        /\ Samples(health_metrics) # << >>

\* C4: every sample a scrape emits was added by the pass of that same scrape,
\* from a record or command output the array returned to it.
C4_ScrapeScoped ==
    \A t \in Threads : \A j \in 1..Len(emitted[t]) : Among(emitted[t][j], written[t])

\* C5: no two samples emitted by one scrape share metric name and label values.
C5_UniqueNameAndLabels ==
    \A t \in Threads : \A i, j \in 1..Len(emitted[t]) :
        i # j => << emitted[t][i].name, emitted[t][i].labels >>
                 # << emitted[t][j].name, emitted[t][j].labels >>

\* C6: when a pass adds two samples with the same metric name and labels, the
\* emitted sample carries the value added first.
C6_FirstWriteWins ==
    \A t \in Threads : \A j \in 1..Len(emitted[t]) : \A i \in 1..Len(written[t]) :
        /\ written[t][i].name = emitted[t][j].name
        /\ \A k \in 1..(i - 1) : written[t][k].name # written[t][i].name
        => emitted[t][j].value = written[t][i].value

\* The output has no line index 3, or the last space-separated token of that
\* line is no number.
NoValue(output) ==
    \/ Len(split(output, "\n")) < 4
    \/ LET tokens == split(split(output, "\n")[4], " ")
       IN  float(tokens[Len(tokens)]) = ValueError

\* C7: a pool whose command output has no line index 3, or a non-numeric last
\* token there, gets no sample, raises nothing to the caller, and the
\* remaining pools of the list still get their command.
C7_BadOutputSkipsPool ==
    \A t \in Threads : \A i \in 1..Len(cmdlog[t]) :
        NoValue(cmdlog[t][i].output)
        => /\ result[t] # "exit:parse"
           /\ ~Named(key_overprv(cmdlog[t][i].cpg), written[t])
           /\ PastPools(t) => Len(cmdlog[t]) = Len(listed[t])

Uppercase == "ABCDEFGHIJKLMNOPQRSTUVWXYZ"
Lowercase == "abcdefghijklmnopqrstuvwxyz"

\* The lower-case form of a character.
lower(c) ==
    IF \E i \in 1..26 : SubSeq(Uppercase, i, i) = c
    THEN LET i == CHOOSE k \in 1..26 : SubSeq(Uppercase, k, k) = c
         IN  SubSeq(Lowercase, i, i)
    ELSE c

\* Text s holds the marker "invalid" in any letter case.
HasInvalidMarker(s) ==
    \E p \in 1..(Len(s) - 6) : \A k \in 1..7 :
        lower(SubSeq(s, p + k - 1, p + k - 1)) = SubSeq("invalid", k, k)

\* C8: a pool whose command output holds the marker "invalid" (any case) gets
\* no sample and raises nothing, also when line index 3 ends in a number.
C8_InvalidMarkerSkipsPool ==
    \A t \in Threads : \A i \in 1..Len(cmdlog[t]) :
        HasInvalidMarker(cmdlog[t][i].output)
        => /\ result[t] # "exit:parse"
           /\ ~Named(key_overprv(cmdlog[t][i].cpg), written[t])

\* C9: collection passes do not interleave (at most one thread is inside
\* collect() at a time) and no scrape fails because another pass changed a
\* dictionary under its iteration.
C9_PassesSerialized ==
    /\ Cardinality({ t \in Threads : Collecting(t) }) <= 1
    /\ \A t \in Threads : result[t] # "RuntimeError"

\* C10: as long as no channel has suffered a fault, at most one connect has
\* been issued on the query channel and one on the command channel, however
\* many scrapes have run.
C10_ConnectionsReused ==
    ~faults => wbem_connects <= 1 /\ ssh_connects <= 1

\* C11: a pass ends on a command execution failure only after it has connected
\* the command channel twice (a first attempt, a reconnect and a second attempt
\* of the per-pool loop), and no pass connects it a third time.
C11_TwoAttempts ==
    \A t \in Threads :
        /\ attempts[t] <= 2
        /\ result[t] = "exit:exec_command" => attempts[t] = 2

\* None of the characters . - [ ] and space occurs in s.
NoDisallowed(s) ==
    \A i \in 1..Len(s) : SubSeq(s, i, i) \notin { ".", "-", "[", "]", " " }

\* C12: the metric name and the label values of every emitted sample, built
\* from the identifying value of a record, hold none of the characters
\* . - [ ] and space.
C12_NoDisallowedCharacter ==
    \A t \in Threads : \A j \in 1..Len(emitted[t]) :
        /\ NoDisallowed(emitted[t][j].name)
        /\ \A k \in 1..Len(emitted[t][j].labels) : NoDisallowed(emitted[t][j].labels[k])

\* The resource sweep of thread t's pass has run to its end.
PastSweep(t) ==
    \/ pc[t] \in { "hp_ssh_connect", "EnumerateCPGs", "exec_command", "overprv",
                   "hp_ssh_logout", "iterate", "yield" }
    \/ result[t] \in { "ok", "RuntimeError", "exit:ssh_connect", "exit:enumerate_cpgs",
                       "exit:exec_command", "exit:parse" }

\* The records the array of thread t's pass holds, with their classes.
Records(t) ==
    UNION { { << list_CIM_classes[c], Inventory(array[t], list_CIM_classes[c])[i] >> :
                i \in 1..Len(Inventory(array[t], list_CIM_classes[c])) } :
            c \in 1..Len(list_CIM_classes) }

\* Property f of the record is present, not null and not empty.
NonEmpty(instance, f) ==
    f \in DOMAIN instance /\ instance[f] # None /\ instance[f].v # ""

IdentifyingFields == << "DeviceID", "ElementName", "Tag", "SerialNumber" >>

\* The record has an identifying value; the first one in the order of
\* IdentifyingFields.
HasIdentifier(instance) == \E k \in 1..4 : NonEmpty(instance, IdentifyingFields[k])
FirstIdentifier(instance) ==
    instance[IdentifyingFields[CHOOSE k \in 1..4 :
                 /\ NonEmpty(instance, IdentifyingFields[k])
                 /\ \A j \in 1..(k - 1) : ~NonEmpty(instance, IdentifyingFields[j])]].v

\* The record has the state properties the sweep reads for a fan or a pool.
HasStates(instance) ==
    /\ "HealthState" \in DOMAIN instance /\ instance["HealthState"] # None
    /\ "OperationalStatus" \in DOMAIN instance
    /\ instance["OperationalStatus"] # None
    /\ instance["OperationalStatus"].v # << >>

\* Text s with every disallowed character, space included, replaced by "_".
Normalized(s) == replace(replace_chain(s), " ", "_")

\* Text s ends with text e.
EndsWith(s, e) == Len(s) >= Len(e) /\ SubSeq(s, Len(s) - Len(e) + 1, Len(s)) = e

\* Sample x carries identifier id, as a label value or at the end of its name.
Carries(x, id) ==
    \/ \E k \in 1..Len(x.labels) : x.labels[k] = Normalized(id)
    \/ EndsWith(Normalized(x.name), "_" \o Normalized(id))

\* C13: when every record of the array has its state properties, no record
\* makes the sweep fail, whatever identifying properties it lacks, and once
\* the sweep is over every record that has an identifying value has a sample
\* carrying the first non-empty one of DeviceID, ElementName, Tag, SerialNumber.
C13_FirstIdentifierOrSentinel ==
    \A t \in Threads :
        (\A r \in Records(t) : HasStates(r[2]))
        => /\ result[t] # "exit:status"
           /\ PastSweep(t) =>
                \A r \in Records(t) :
                    HasIdentifier(r[2]) =>
                        \E i \in 1..Len(written[t]) :
                            Carries(written[t][i], FirstIdentifier(r[2]))

\* The derived kinds a record of a class can produce.
KindsOf(CIM_class) ==
    { "health", "oper" }
    \cup (IF CIM_class = "TPD_Battery" THEN { "capacity", "voltage" } ELSE { })
    \cup (IF CIM_class = "TPD_NodeSystem" THEN { "led" } ELSE { })
    \cup (IF CIM_class \in { "TPD_SASPort", "TPD_FCPort", "TPD_EthernetPort" }
          THEN { "other_oper" } ELSE { })
    \cup (IF CIM_class = "TPD_DynamicStoragePool" THEN { "overprv" } ELSE { })

\* The metric names of the classes that have a record in the array of thread
\* t's pass: the class name without its 4-character tag, "_", the derived kind.
FamilyNames(t) ==
    UNION { { StrFrom(r[1], 4) \o "_" \o k : k \in KindsOf(r[1]) } : r \in Records(t) }

\* C14: the metric name of every sample a scrape emits for a record of its own
\* pass is the name of a (class, derived kind) family, so the names do not
\* depend on how many instances a class has or on their identifiers.
C14_ClassDeterminedNames ==
    \A t \in Threads : \A j \in 1..Len(emitted[t]) :
        Among(emitted[t][j], written[t]) => emitted[t][j].name \in FamilyNames(t)

\* The identifying property the sweep reads for a record of a class.
FieldOf(CIM_class) ==
    IF CIM_class \in { "TPD_Fan", "TPD_Battery", "TPD_CagePowerSupply", "TPD_NodePowerSupply" }
    THEN "DeviceID"
    ELSE IF CIM_class \in { "TPD_IDEDrive", "TPD_PCICard" } THEN "Tag"
    ELSE IF CIM_class = "TPD_PhysicalMemory" THEN "SerialNumber"
    ELSE "ElementName"

\* C15: when every record of the array has the identifying property of its
\* class, a record without OperationalStatus (or another state property) does
\* not make the sweep fail, and once the sweep is over every record with a
\* HealthState has a health sample with that value.
C15_MissingValuesSkipped ==
    \A t \in Threads :
        (\A r \in Records(t) : NonEmpty(r[2], FieldOf(r[1])))
        => /\ result[t] # "exit:status"
           /\ PastSweep(t) =>
                \A r \in Records(t) :
                    ("HealthState" \in DOMAIN r[2] /\ r[2]["HealthState"] # None)
                    => \E i \in 1..Len(written[t]) :
                           /\ written[t][i].value = r[2]["HealthState"]
                           /\ Carries(written[t][i], r[2][FieldOf(r[1])].v)

\* C16: a pass that returns all its samples right after a pass that met the
\* array in the same state and also returned all its samples yields the same
\* set of (name, labels, value) triples.
C16_Idempotent ==
    \A t \in Threads :
        (result[t] = "ok" /\ previous.result = "ok" /\ previous.array = array[t])
        => { emitted[t][j] : j \in 1..Len(emitted[t]) } = previous.samples

\* C16 witness: a scrape has returned its samples for an array that reports
\* one fan twice and two pools, right after a pass that met the same array,
\* and the dictionaries also hold a family that neither pass wrote.
C16_Witness ==
    \E t \in Workers :
        /\ result[t] = "ok"
        /\ previous.result = "ok"
        /\ previous.array = array[t]
        /\ array[t].fans = << FanA, FanB >>
        /\ written[t] # << >>
        /\ \E j \in 1..Len(emitted[t]) : ~Among(emitted[t][j], written[t])

\* C17: in every pass the command channel is connected before the first class
\* query of the sweep, so a pass that ends on a command-channel connect
\* failure has collected no record; the per-pool loop runs after the last
\* class of the sweep, and samples are yielded only after both.
C17_ChannelsBeforeSweep ==
    \A t \in Threads :
        /\ pc[t] \in { "EnumerateInstances", "status" } => hp_ssh_connection[t] # 0
        /\ result[t] = "exit:ssh_connect" => written[t] = << >>
        /\ pc[t] \in { "EnumerateCPGs", "exec_command", "overprv" }
           => CIM_index[t] = Len(list_CIM_classes)
        /\ emitted[t] # << >> => pc[t] \in { "iterate", "yield", "done" }

\* The last whitespace-separated token of a line: what follows the last
\* whitespace character once trailing whitespace is dropped.
LastToken(line) ==
    LET u == rstrip(line)
        hits == { i \in 1..Len(u) : IsSpace(SubSeq(u, i, i)) }
    IN  IF hits = { } THEN u
        ELSE SubSeq(u, (CHOOSE i \in hits : \A k \in hits : k <= i) + 1, Len(u))

\* The output has a line index 3 whose last whitespace-separated token is a
\* number.
HasValue(output) ==
    /\ Len(split(output, "\n")) >= 4
    /\ float(LastToken(split(output, "\n")[4])) # ValueError

\* C18: the commands a pass has issued are for the pools its enumeration
\* returned, one each and in order, all of them once the per-pool loop is
\* over; and a pool whose output has a line index 3 ending in a numeric
\* whitespace-separated token does not fail the parse and gets a sample whose
\* value is that token.
C18_OneCommandLastToken ==
    \A t \in Threads :
        /\ Len(cmdlog[t]) <= Len(listed[t])
        /\ \A i \in 1..Len(cmdlog[t]) : cmdlog[t][i].cpg = listed[t][i]
        /\ (PastPools(t) /\ result[t] \in { "none", "ok" })
           => Len(cmdlog[t]) = Len(listed[t])
        /\ \A i \in 1..Len(cmdlog[t]) :
             HasValue(cmdlog[t][i].output)
             => /\ i = Len(cmdlog[t]) => result[t] # "exit:parse"
                /\ (i < Len(cmdlog[t]) \/ PastPools(t))
                   => \E k \in 1..Len(written[t]) :
                        /\ written[t][k].name = key_overprv(cmdlog[t][i].cpg)
                        /\ written[t][k].value
                           = float(LastToken(split(cmdlog[t][i].output, "\n")[4]))

\* C19: while the process runs, at most one SSH connection is open and not
\* closed, and none when no thread is inside collect(): every connection a
\* pass opens is closed by the time its collect() has returned or failed.
C19_NoConnectionLeak ==
    running =>
        /\ ssh_open <= 1
        /\ (\A t \in Threads : ~Collecting(t)) => ssh_open = 0

====
